---- MODULE Spec2Model ----
(***************************************************************************)
(* Pontoon: the card / deck / hand data model and the shuffle-deal         *)
(* protocol of src/models/{card,deck,hand}.rs, driven as src/main.rs       *)
(* drives it.                                                              *)
(*                                                                         *)
(* A Deck is { cards: Vec<Card>, rng: StdRng }.  StdRng and                *)
(* SliceRandom::shuffle come from the rand crate; the generator is         *)
(* modelled as a deterministic 16-bit congruential generator, the shuffle  *)
(* as the crate's swap scan from the last index down to index 1.           *)
(***************************************************************************)
EXTENDS Integers, Sequences, FiniteSets, TLC

(***************************************************************************)
(* Bounds of the model.                                                    *)
(***************************************************************************)
MaxSeed == 2          \* new_seeded is called with seeds 0..MaxSeed
MaxEntropy == 1       \* from_entropy yields one of the states 0..MaxEntropy
MaxShuffles == 1      \* calls of shuffle() after construction, per deck
MaxEmptyDeals == 3    \* calls of deal() on an empty deck, per deck
MaxHandDeals == 5     \* deals whose hand the caller picks freely; then in turn
RngMod == 65536       \* the generator state is a 16-bit word
MaxHandLen == 5       \* cards a caller adds to a hand before clearing it
MaxPool == 2          \* distinct cards a caller has to add to a hand
MaxClears == 2        \* calls of clear() in a row
MaxFairLen == 4       \* deck sizes whose shuffle outcomes are enumerated
MaxMainEntropy == 9   \* from_entropy in main() yields one of 0..MaxMainEntropy

DeckIds == {1, 2}
HandIds == {"player", "banker"}
Seeds == 0..MaxSeed

(***************************************************************************)
(* card.rs                                                                 *)
(***************************************************************************)
RankAll ==
  <<"Ace", "Two", "Three", "Four", "Five", "Six", "Seven", "Eight", "Nine",
    "Ten", "Jack", "Queen", "King">>

SuitAll ==
  <<"Hearts", "Diamonds", "Clubs", "Spades">>

Range(s) ==
  {s[i] : i \in 1..Len(s)}

Card(rank, suit) ==
  [rank |-> rank, suit |-> suit]

\* a base value that counts the Ace high
rank_base_value_ace11(rank) ==
  CASE rank = "Ace" -> 11
    [] rank = "Two" -> 2
    [] rank = "Three" -> 3
    [] rank = "Four" -> 4
    [] rank = "Five" -> 5
    [] rank = "Six" -> 6
    [] rank = "Seven" -> 7
    [] rank = "Eight" -> 8
    [] rank = "Nine" -> 9
    [] rank \in {"Ten", "Jack", "Queen", "King"} -> 10

\* Rank::base_value
rank_base_value(rank) ==
  CASE rank = "Ace" -> 1
    [] rank = "Two" -> 2
    [] rank = "Three" -> 3
    [] rank = "Four" -> 4
    [] rank = "Five" -> 5
    [] rank = "Six" -> 6
    [] rank = "Seven" -> 7
    [] rank = "Eight" -> 8
    [] rank = "Nine" -> 9
    [] rank \in {"Ten", "Jack", "Queen", "King"} -> 10

\* Card::base_value
base_value(card) ==
  rank_base_value(card.rank)

\* impl Display for Rank
rank_display(rank) ==
  CASE rank = "Ace" -> "Ace"
    [] rank = "Two" -> "2"
    [] rank = "Three" -> "3"
    [] rank = "Four" -> "4"
    [] rank = "Five" -> "5"
    [] rank = "Six" -> "6"
    [] rank = "Seven" -> "7"
    [] rank = "Eight" -> "8"
    [] rank = "Nine" -> "9"
    [] rank = "Ten" -> "10"
    [] rank = "Jack" -> "Jack"
    [] rank = "Queen" -> "Queen"
    [] rank = "King" -> "King"

\* impl Display for Suit
suit_display(suit) ==
  CASE suit = "Hearts" -> "Hearts"
    [] suit = "Diamonds" -> "Diamonds"
    [] suit = "Clubs" -> "Clubs"
    [] suit = "Spades" -> "Spades"

\* a rendering with the suit first
card_display_suit_first(card) ==
  suit_display(card.suit) \o " of " \o rank_display(card.rank)

\* impl Display for Card: write!(f, "{} of {}", self.rank, self.suit)
card_display(card) ==
  rank_display(card.rank) \o " of " \o suit_display(card.suit)

\* an equality that looks at the rank only
card_eq_rank(c1, c2) ==
  c1.rank = c2.rank

\* #[derive(PartialEq)] for Card: field by field
card_eq(c1, c2) ==
  c1.rank = c2.rank /\ c1.suit = c2.suit

(***************************************************************************)
(* deck.rs                                                                 *)
(***************************************************************************)
\* the rank loop stopping one short: no King, the suits overlap
create_standard_deck_short ==
  [i \in 1..(Len(SuitAll) * Len(RankAll)) |->
     Card(RankAll[((i - 1) % (Len(RankAll) - 1)) + 1],
          SuitAll[((i - 1) \div Len(RankAll)) + 1])]

\* for suit in Suit::all() { for rank in Rank::all() { cards.push(..) } }
create_standard_deck ==
  [i \in 1..(Len(SuitAll) * Len(RankAll)) |->
     Card(RankAll[((i - 1) % Len(RankAll)) + 1],
          SuitAll[((i - 1) \div Len(RankAll)) + 1])]

\* StdRng::seed_from_u64(seed): the seed is expanded into the generator state
seed_from_u64(seed) ==
  ((seed % RngMod) * 40503 + 12345) % RngMod

\* one step of the generator
NextRng(r) ==
  (r * 25173 + 13849) % RngMod

\* gen_index(rng, ubound): an index in [0, ubound) from the generator's output
gen_index(r, ubound) ==
  (r \div 256) % ubound

\* a swap that forgets its second assignment
Swap_copy(c, i, j) ==
  [c EXCEPT ![i] = c[j]]

Swap(c, i, j) ==
  [c EXCEPT ![i] = c[j], ![j] = c[i]]

\* SliceRandom::shuffle: for i in (1..len).rev() { swap(i, gen_index(rng, i + 1)) }
\* (i is the 0-based index of the code; sequences here are 1-based)
RECURSIVE ShuffleScan(_, _, _)
ShuffleScan(c, r, i) ==
  IF i < 1
    THEN [cards |-> c, rng |-> r]
    ELSE LET r2 == NextRng(r)
             j == gen_index(r2, i + 1)
         IN  ShuffleScan(Swap(c, i + 1, j + 1), r2, i - 1)

\* the scan with the partner index drawn from [0, i) instead of [0, i]
RECURSIVE ScanOutcomes_below(_, _, _)
ScanOutcomes_below(c, i, k) ==
  IF i < 1
    THEN {[cards |-> c, steps |-> k]}
    ELSE UNION {ScanOutcomes_below(Swap(c, i + 1, j + 1), i - 1, k + 1) : j \in 0..(i - 1)}

\* SliceRandom::shuffle over every output the generator can give: at index i
\* gen_index(rng, i + 1) is some j in [0, i].  The results of the scan from
\* index i down, each with the number of swap steps made (k so far).
RECURSIVE ScanOutcomes(_, _, _)
ScanOutcomes(c, i, k) ==
  IF i < 1
    THEN {[cards |-> c, steps |-> k]}
    ELSE UNION {ScanOutcomes(Swap(c, i + 1, j + 1), i - 1, k + 1) : j \in 0..i}

\* what one shuffle() of the cards c can give
shuffle_outcomes(c) ==
  ScanOutcomes(c, Len(c) - 1, 0)

\* a shuffle that first refills the deck to the full standard deck
shuffle_refill(c, r) ==
  ShuffleScan(create_standard_deck, r, Len(create_standard_deck) - 1)

\* self.cards.shuffle(&mut self.rng)
shuffle(c, r) ==
  ShuffleScan(c, r, Len(c) - 1)

\* a deal that takes the card at the front of the deck
deal_first(c) ==
  IF c = <<>>
    THEN [ret |-> <<>>, cards |-> c]
    ELSE [ret |-> <<Head(c)>>, cards |-> Tail(c)]

\* a deal that returns the last card and leaves it in the deck
deal_peek(c) ==
  IF c = <<>>
    THEN [ret |-> <<>>, cards |-> c]
    ELSE [ret |-> <<c[Len(c)]>>, cards |-> c]

\* a deal that hands out a default card when the deck is empty
deal_or_default(c) ==
  IF c = <<>>
    THEN [ret |-> <<Card("Ace", "Hearts")>>, cards |-> c]
    ELSE [ret |-> <<c[Len(c)]>>, cards |-> SubSeq(c, 1, Len(c) - 1)]

\* a deal that returns the last card and removes the first
deal_front(c) ==
  IF c = <<>>
    THEN [ret |-> <<>>, cards |-> c]
    ELSE [ret |-> <<c[Len(c)]>>, cards |-> Tail(c)]

\* self.cards.pop(): Option<Card> is <<>> (None) or <<card>> (Some(card))
deal(c) ==
  IF c = <<>>
    THEN [ret |-> <<>>, cards |-> c]
    ELSE [ret |-> <<c[Len(c)]>>, cards |-> SubSeq(c, 1, Len(c) - 1)]

\* the capacity of the vector instead of its length
cards_remaining_capacity(c) ==
  Len(create_standard_deck)

\* self.cards.len()
cards_remaining(c) ==
  Len(c)

\* a needs_reshuffle that is true only at the threshold count
needs_reshuffle_at(c) ==
  Len(c) = 14

\* the threshold test with <= for <
needs_reshuffle_le(c) ==
  Len(c) <= 15

\* self.cards.len() < 15
needs_reshuffle(c) ==
  Len(c) < 15

(***************************************************************************)
(* hand.rs                                                                 *)
(***************************************************************************)
\* an add_card that overwrites the hand with the new card
add_card_replace(h, card) ==
  <<card>>

\* an add_card that skips a card the hand already holds
add_card_dedup(h, card) ==
  IF card \in Range(h) THEN h ELSE Append(h, card)

\* an add_card that puts the new card in front
add_card_front(h, card) ==
  <<card>> \o h

\* self.cards.push(card)
add_card(h, card) ==
  Append(h, card)

\* self.cards.len()
card_count(h) ==
  Len(h)

\* &self.cards
cards_view(h) ==
  h

\* a clear that drops only the last card
clear_pop(h) ==
  IF h = <<>> THEN h ELSE SubSeq(h, 1, Len(h) - 1)

\* self.cards.clear()
clear(h) ==
  <<>>

(***************************************************************************)
(* display.rs: each method is the sequence of lines it writes to stdout.   *)
(* The box-drawing characters of the source are written +, -, | and =.     *)
(***************************************************************************)
\* Hand::new()
hand_new ==
  <<>>

\* Display::show_welcome()
show_welcome ==
  << "",
     "+=======================================+",
     "|                                       |",
     "|            PONTOON GAME               |",
     "|      British Card Game Classic        |",
     "|                                       |",
     "+=======================================+",
     "" >>

\* println!("|  {}", card)
card_line(card) ==
  "|  " \o card_display(card)

\* Display::show_player_hand(hand)
show_player_hand(h) ==
  << "", "+- Your Hand -------------------------+" >>
    \o [i \in 1..Len(cards_view(h)) |-> card_line(cards_view(h)[i])]
    \o << "+-------------------------------------+" >>

\* a hidden view that prints every card of the hand
show_banker_hand_hidden_all(h) ==
  << "", "+- Banker's Hand ---------------------+" >>
    \o [i \in 1..Len(cards_view(h)) |-> card_line(cards_view(h)[i])]
    \o << "+-------------------------------------+" >>

\* Display::show_banker_hand_hidden(hand)
show_banker_hand_hidden(h) ==
  << "", "+- Banker's Hand ---------------------+" >>
    \o (IF cards_view(h) # <<>> THEN << card_line(cards_view(h)[1]) >> ELSE <<>>)
    \o (IF card_count(h) > 1 THEN << "|  [Hidden Card]" >> ELSE <<>>)
    \o << "+-------------------------------------+" >>

\* Display::show_message(message), the message given as its lines
show_message(message) ==
  << "" >> \o message

\* Display::show_separator()
show_separator ==
  << "", "===========================================" >>

(***************************************************************************)
(* State                                                                   *)
(***************************************************************************)
VARIABLES
  pc,         \* pc[d]: "none" before deck d is constructed, "live" after
  cards,      \* cards[d]: Deck.cards
  rng,        \* rng[d]: Deck.rng
  seedOf,     \* seedOf[d]: the seed deck d was built with, -1 for new()
  dealt,      \* dealt[d]: the cards deal() has returned, in order
  nones,      \* nones[d]: how many deal() calls returned None
  shuffles,   \* shuffles[d]: calls of shuffle() after construction
  last,       \* the last call and what it returned
  hands,      \* hands[h]: Hand.cards
  given,      \* given[h]: the cards passed to add_card since the hand was empty
  clears,     \* clears[h]: calls of clear() in a row on hand h
  panicked,   \* an expect("Deck should have cards") has failed
  out,        \* the lines the last call of a Display method printed
  mainpc      \* the line of main.rs that main() executes next

vars == <<pc, cards, rng, seedOf, dealt, nones, shuffles, last, hands, given, clears,
          panicked, out, mainpc>>

Call(name, d, card, n, b) ==
  [name |-> name, d |-> d, card |-> card, n |-> n, b |-> b]

Init ==
  /\ pc = [d \in DeckIds |-> "none"]
  /\ cards = [d \in DeckIds |-> <<>>]
  /\ rng = [d \in DeckIds |-> 0]
  /\ seedOf = [d \in DeckIds |-> -1]
  /\ dealt = [d \in DeckIds |-> <<>>]
  /\ nones = [d \in DeckIds |-> 0]
  /\ shuffles = [d \in DeckIds |-> 0]
  /\ last = Call("start", 0, <<>>, 0, FALSE)
  /\ hands = [h \in HandIds |-> <<>>]
  /\ given = [h \in HandIds |-> <<>>]
  /\ clears = [h \in HandIds |-> 0]
  /\ panicked = FALSE
  /\ out = <<>>
  /\ mainpc = 10

\* Deck::new(): the standard deck, a generator seeded from entropy, shuffle
New(d) ==
  /\ pc[d] = "none"
  /\ \E e \in 0..MaxEntropy :
       LET s == shuffle(create_standard_deck, e)
       IN  /\ cards' = [cards EXCEPT ![d] = s.cards]
           /\ rng' = [rng EXCEPT ![d] = s.rng]
  /\ pc' = [pc EXCEPT ![d] = "live"]
  /\ last' = Call("new", d, <<>>, 0, FALSE)
  /\ UNCHANGED <<seedOf, dealt, nones, shuffles, hands, given, clears, panicked, out, mainpc>>

\* a new_seeded that seeds its generator from entropy as new() does
NewSeeded_entropy(d, seed) ==
  /\ pc[d] = "none"
  /\ \E e \in 0..MaxEntropy :
       LET s == shuffle(create_standard_deck, e)
       IN  /\ cards' = [cards EXCEPT ![d] = s.cards]
           /\ rng' = [rng EXCEPT ![d] = s.rng]
  /\ pc' = [pc EXCEPT ![d] = "live"]
  /\ seedOf' = [seedOf EXCEPT ![d] = seed]
  /\ last' = Call("new_seeded", d, <<>>, 0, FALSE)
  /\ UNCHANGED <<dealt, nones, shuffles, hands, given, clears, panicked, out, mainpc>>

\* Deck::new_seeded(seed)
NewSeeded(d, seed) ==
  /\ pc[d] = "none"
  /\ LET s == shuffle(create_standard_deck, seed_from_u64(seed))
     IN  /\ cards' = [cards EXCEPT ![d] = s.cards]
         /\ rng' = [rng EXCEPT ![d] = s.rng]
  /\ pc' = [pc EXCEPT ![d] = "live"]
  /\ seedOf' = [seedOf EXCEPT ![d] = seed]
  /\ last' = Call("new_seeded", d, <<>>, 0, FALSE)
  /\ UNCHANGED <<dealt, nones, shuffles, hands, given, clears, panicked, out, mainpc>>

\* Deck::shuffle()
Shuffle(d) ==
  /\ pc[d] = "live"
  /\ ~panicked
  /\ shuffles[d] < MaxShuffles
  /\ LET s == shuffle(cards[d], rng[d])
     IN  /\ cards' = [cards EXCEPT ![d] = s.cards]
         /\ rng' = [rng EXCEPT ![d] = s.rng]
  /\ shuffles' = [shuffles EXCEPT ![d] = @ + 1]
  /\ last' = Call("shuffle", d, <<>>, 0, FALSE)
  /\ UNCHANGED <<pc, seedOf, dealt, nones, hands, given, clears, panicked, out, mainpc>>

\* Deck::deal(), the caller keeping the card out of any hand
Deal(d) ==
  /\ pc[d] = "live"
  /\ ~panicked
  /\ cards[d] = <<>> => nones[d] < MaxEmptyDeals
  /\ LET r == deal(cards[d])
     IN  /\ cards' = [cards EXCEPT ![d] = r.cards]
         /\ dealt' = [dealt EXCEPT ![d] = @ \o r.ret]
         /\ nones' = [nones EXCEPT ![d] = IF r.ret = <<>> THEN @ + 1 ELSE @]
         /\ last' = Call("deal", d, r.ret, 0, FALSE)
  /\ UNCHANGED <<pc, rng, seedOf, shuffles, hands, given, clears, panicked, out, mainpc>>

\* Deck::cards_remaining()
CardsRemaining(d) ==
  /\ pc[d] = "live"
  /\ ~panicked
  /\ last' = Call("cards_remaining", d, <<>>, cards_remaining(cards[d]), FALSE)
  /\ UNCHANGED <<pc, cards, rng, seedOf, dealt, nones, shuffles, hands, given, clears,
                 panicked, out, mainpc>>

\* Deck::needs_reshuffle()
NeedsReshuffle(d) ==
  /\ pc[d] = "live"
  /\ ~panicked
  /\ last' = Call("needs_reshuffle", d, <<>>, 0, needs_reshuffle(cards[d]))
  /\ UNCHANGED <<pc, cards, rng, seedOf, dealt, nones, shuffles, hands, given, clears,
                 panicked, out, mainpc>>

\* main.rs deals to the player and the banker in turn
InTurn ==
  IF Len(hands["player"]) <= Len(hands["banker"]) THEN "player" ELSE "banker"

\* main.rs: hand.add_card(deck.deal().expect("Deck should have cards"))
DealTo(d, h) ==
  /\ pc[d] = "live"
  /\ ~panicked
  /\ \/ Len(dealt[d]) < MaxHandDeals
     \/ h = InTurn
  /\ LET r == deal(cards[d])
     IN  /\ cards' = [cards EXCEPT ![d] = r.cards]
         /\ dealt' = [dealt EXCEPT ![d] = @ \o r.ret]
         /\ nones' = [nones EXCEPT ![d] = IF r.ret = <<>> THEN @ + 1 ELSE @]
         /\ last' = Call("deal", d, r.ret, 0, FALSE)
         /\ IF r.ret = <<>>
              THEN /\ panicked' = TRUE
                   /\ UNCHANGED <<hands, given, clears>>
              ELSE /\ panicked' = FALSE
                   /\ hands' = [hands EXCEPT ![h] = add_card(@, r.ret[1])]
                   /\ given' = [given EXCEPT ![h] = Append(@, r.ret[1])]
                   /\ clears' = [clears EXCEPT ![h] = 0]
  /\ UNCHANGED <<pc, rng, seedOf, shuffles, out, mainpc>>

\* deck1.deal() and deck2.deal(), the same call on two decks of one seed
DealBoth ==
  /\ \A d \in DeckIds : pc[d] = "live"
  /\ seedOf[1] = seedOf[2]
  /\ ~panicked
  /\ \A d \in DeckIds : cards[d] = <<>> => nones[d] < MaxEmptyDeals
  /\ cards' = [d \in DeckIds |-> deal(cards[d]).cards]
  /\ dealt' = [d \in DeckIds |-> dealt[d] \o deal(cards[d]).ret]
  /\ nones' = [d \in DeckIds |->
                IF deal(cards[d]).ret = <<>> THEN nones[d] + 1 ELSE nones[d]]
  /\ last' = Call("deal_both", 0, deal(cards[1]).ret, 0, FALSE)
  /\ UNCHANGED <<pc, rng, seedOf, shuffles, hands, given, clears, panicked, out, mainpc>>

\* a shuffle of both decks out of one shared generator: the second deck
\* draws from a state the first deck has already advanced
ShuffleBoth_shared ==
  /\ \A d \in DeckIds : pc[d] = "live"
  /\ seedOf[1] = seedOf[2]
  /\ ~panicked
  /\ \A d \in DeckIds : shuffles[d] < MaxShuffles
  /\ cards' = [d \in DeckIds |->
                IF d = 1 THEN shuffle(cards[1], rng[1]).cards
                         ELSE shuffle(cards[2], NextRng(rng[1])).cards]
  /\ rng' = [d \in DeckIds |-> shuffle(cards[2], NextRng(rng[1])).rng]
  /\ shuffles' = [d \in DeckIds |-> shuffles[d] + 1]
  /\ last' = Call("shuffle_both", 0, <<>>, 0, FALSE)
  /\ UNCHANGED <<pc, seedOf, dealt, nones, hands, given, clears, panicked, out, mainpc>>

\* deck1.shuffle() and deck2.shuffle(), each deck with its own generator
ShuffleBoth ==
  /\ \A d \in DeckIds : pc[d] = "live"
  /\ seedOf[1] = seedOf[2]
  /\ ~panicked
  /\ \A d \in DeckIds : shuffles[d] < MaxShuffles
  /\ cards' = [d \in DeckIds |-> shuffle(cards[d], rng[d]).cards]
  /\ rng' = [d \in DeckIds |-> shuffle(cards[d], rng[d]).rng]
  /\ shuffles' = [d \in DeckIds |-> shuffles[d] + 1]
  /\ last' = Call("shuffle_both", 0, <<>>, 0, FALSE)
  /\ UNCHANGED <<pc, seedOf, dealt, nones, hands, given, clears, panicked, out, mainpc>>

\* a call of a Card method: the cards it was given and what it returned
CardCall(name, cs, n, b, str) ==
  [name |-> name, d |-> 0, card |-> cs, n |-> n, b |-> b, str |-> str]

\* card.base_value()
BaseValue(card) ==
  /\ last' = CardCall("base_value", <<card>>, base_value(card), FALSE, "")
  /\ UNCHANGED <<pc, cards, rng, seedOf, dealt, nones, shuffles, hands, given, clears,
                 panicked, out, mainpc>>

\* format!("{}", card)
CardDisplay(card) ==
  /\ last' = CardCall("display", <<card>>, 0, FALSE, card_display(card))
  /\ UNCHANGED <<pc, cards, rng, seedOf, dealt, nones, shuffles, hands, given, clears,
                 panicked, out, mainpc>>

\* card1 == card2
CardEq(c1, c2) ==
  /\ last' = CardCall("eq", <<c1, c2>>, 0, card_eq(c1, c2), "")
  /\ UNCHANGED <<pc, cards, rng, seedOf, dealt, nones, shuffles, hands, given, clears,
                 panicked, out, mainpc>>

\* the cards a caller of Hand has at hand: the first MaxPool of the standard deck
HandPool ==
  {create_standard_deck[i] : i \in 1..MaxPool}

\* Hand::add_card(card)
AddCard(h, card) ==
  /\ Len(hands[h]) < MaxHandLen
  /\ hands' = [hands EXCEPT ![h] = add_card(@, card)]
  /\ given' = [given EXCEPT ![h] = Append(@, card)]
  /\ clears' = [clears EXCEPT ![h] = 0]
  /\ last' = Call("add_card", h, <<card>>, 0, FALSE)
  /\ UNCHANGED <<pc, cards, rng, seedOf, dealt, nones, shuffles, panicked, out, mainpc>>

\* Hand::card_count()
CardCount(h) ==
  /\ last' = Call("card_count", h, <<>>, card_count(hands[h]), FALSE)
  /\ UNCHANGED <<pc, cards, rng, seedOf, dealt, nones, shuffles, hands, given, clears,
                 panicked, out, mainpc>>

\* Hand::cards(): the returned slice is kept in last.card
CardsView(h) ==
  /\ last' = Call("cards", h, cards_view(hands[h]), 0, FALSE)
  /\ UNCHANGED <<pc, cards, rng, seedOf, dealt, nones, shuffles, hands, given, clears,
                 panicked, out, mainpc>>

\* Hand::clear()
Clear(h) ==
  /\ clears[h] < MaxClears
  /\ hands' = [hands EXCEPT ![h] = clear(@)]
  /\ given' = [given EXCEPT ![h] = <<>>]
  /\ clears' = [clears EXCEPT ![h] = @ + 1]
  /\ last' = Call("clear", h, <<>>, 0, FALSE)
  /\ UNCHANGED <<pc, cards, rng, seedOf, dealt, nones, shuffles, panicked, out, mainpc>>

\* display.show_player_hand(&hand)
ShowPlayerHand(h) ==
  /\ out' = show_player_hand(hands[h])
  /\ last' = Call("show_player_hand", h, <<>>, 0, FALSE)
  /\ UNCHANGED <<pc, cards, rng, seedOf, dealt, nones, shuffles, hands, given, clears,
                 panicked, mainpc>>

\* display.show_banker_hand_hidden(&hand)
ShowBankerHandHidden(h) ==
  /\ out' = show_banker_hand_hidden(hands[h])
  /\ last' = Call("show_banker_hand_hidden", h, <<>>, 0, FALSE)
  /\ UNCHANGED <<pc, cards, rng, seedOf, dealt, nones, shuffles, hands, given, clears,
                 panicked, mainpc>>

(***************************************************************************)
(* main.rs: one action per statement of main(), mainpc the line it is at   *)
(***************************************************************************)
\* main.rs 10: display.show_welcome()
MainShowWelcome ==
  /\ mainpc = 10
  /\ out' = show_welcome
  /\ mainpc' = 11
  /\ last' = Call("show_welcome", 0, <<>>, 0, FALSE)
  /\ UNCHANGED <<pc, cards, rng, seedOf, dealt, nones, shuffles, hands, given, clears,
                 panicked>>

\* main.rs 11, 12, 34: display.show_message("...")
MainShowMessage ==
  /\ mainpc \in {11, 12, 34}
  /\ out' = show_message(CASE mainpc = 11 -> << "Welcome to Pontoon!" >>
                           [] mainpc = 12 -> << "Dealing initial cards..." >>
                           [] mainpc = 34 ->
                                << "", "[Story 1 Demo Complete - Initial Deal Working!]" >>)
  /\ mainpc' = CASE mainpc = 11 -> 12 [] mainpc = 12 -> 15 [] mainpc = 34 -> 35
  /\ last' = Call("show_message", 0, <<>>, 0, FALSE)
  /\ UNCHANGED <<pc, cards, rng, seedOf, dealt, nones, shuffles, hands, given, clears,
                 panicked>>

\* main.rs 15: let mut deck = Deck::new()
MainNewDeck ==
  /\ mainpc = 15
  /\ pc[1] = "none"
  /\ \E e \in 0..MaxMainEntropy :
       LET s == shuffle(create_standard_deck, e)
       IN  /\ cards' = [cards EXCEPT ![1] = s.cards]
           /\ rng' = [rng EXCEPT ![1] = s.rng]
  /\ pc' = [pc EXCEPT ![1] = "live"]
  /\ mainpc' = 18
  /\ last' = Call("new", 1, <<>>, 0, FALSE)
  /\ UNCHANGED <<seedOf, dealt, nones, shuffles, hands, given, clears, panicked, out>>

\* main.rs 18, 19: let mut player_hand = Hand::new(), banker_hand likewise
MainNewHand ==
  /\ mainpc \in {18, 19}
  /\ LET h == IF mainpc = 18 THEN "player" ELSE "banker"
     IN  /\ hands' = [hands EXCEPT ![h] = hand_new]
         /\ given' = [given EXCEPT ![h] = <<>>]
         /\ clears' = [clears EXCEPT ![h] = 0]
         /\ last' = Call("hand_new", h, <<>>, 0, FALSE)
  /\ mainpc' = IF mainpc = 18 THEN 19 ELSE 22
  /\ UNCHANGED <<pc, cards, rng, seedOf, dealt, nones, shuffles, panicked, out>>

\* a deal that gives the player the first two cards and the banker the next two
InitialDealHand_pairs(line) ==
  IF line \in {22, 23} THEN "player" ELSE "banker"

\* main.rs 22..25: the hand each statement of the initial deal adds to
InitialDealHand(line) ==
  IF line \in {22, 24} THEN "player" ELSE "banker"

\* main.rs 22..25: hand.add_card(deck.deal().expect("Deck should have cards"));
\* a failed expect panics, and main() goes no further
MainDeal ==
  /\ mainpc \in 22..25
  /\ ~panicked
  /\ LET r == deal(cards[1])
         h == InitialDealHand(mainpc)
     IN  /\ cards' = [cards EXCEPT ![1] = r.cards]
         /\ dealt' = [dealt EXCEPT ![1] = @ \o r.ret]
         /\ nones' = [nones EXCEPT ![1] = IF r.ret = <<>> THEN @ + 1 ELSE @]
         /\ last' = Call("deal", 1, r.ret, 0, FALSE)
         /\ IF r.ret = <<>>
              THEN /\ panicked' = TRUE
                   /\ UNCHANGED <<hands, given, clears, mainpc>>
              ELSE /\ panicked' = FALSE
                   /\ hands' = [hands EXCEPT ![h] = add_card(@, r.ret[1])]
                   /\ given' = [given EXCEPT ![h] = Append(@, r.ret[1])]
                   /\ clears' = [clears EXCEPT ![h] = 0]
                   /\ mainpc' = IF mainpc = 25 THEN 28 ELSE mainpc + 1
  /\ UNCHANGED <<pc, rng, seedOf, shuffles, out>>

\* main.rs 28, 31: display.show_separator()
MainShowSeparator ==
  /\ mainpc \in {28, 31}
  /\ ~panicked
  /\ out' = show_separator
  /\ mainpc' = IF mainpc = 28 THEN 29 ELSE 33
  /\ last' = Call("show_separator", 0, <<>>, 0, FALSE)
  /\ UNCHANGED <<pc, cards, rng, seedOf, dealt, nones, shuffles, hands, given, clears,
                 panicked>>

\* main.rs 29: display.show_player_hand(&player_hand)
MainShowPlayerHand ==
  /\ mainpc = 29
  /\ ~panicked
  /\ out' = show_player_hand(hands["player"])
  /\ mainpc' = 30
  /\ last' = Call("show_player_hand", "player", <<>>, 0, FALSE)
  /\ UNCHANGED <<pc, cards, rng, seedOf, dealt, nones, shuffles, hands, given, clears,
                 panicked>>

\* main.rs 30: display.show_banker_hand_hidden(&banker_hand)
MainShowBankerHandHidden ==
  /\ mainpc = 30
  /\ ~panicked
  /\ out' = show_banker_hand_hidden(hands["banker"])
  /\ mainpc' = 31
  /\ last' = Call("show_banker_hand_hidden", "banker", <<>>, 0, FALSE)
  /\ UNCHANGED <<pc, cards, rng, seedOf, dealt, nones, shuffles, hands, given, clears,
                 panicked>>

\* main.rs 33: display.show_message(&format!("\nCards remaining in deck: {}",
\* deck.cards_remaining()))
MainShowRemaining ==
  /\ mainpc = 33
  /\ ~panicked
  /\ out' = show_message(<< "", "Cards remaining in deck: "
                                  \o ToString(cards_remaining(cards[1])) >>)
  /\ mainpc' = 34
  /\ last' = Call("cards_remaining", 1, <<>>, cards_remaining(cards[1]), FALSE)
  /\ UNCHANGED <<pc, cards, rng, seedOf, dealt, nones, shuffles, hands, given, clears,
                 panicked>>

(***************************************************************************)
(* Specifications                                                          *)
(***************************************************************************)
\* one deck under every operation of deck.rs
Next ==
  \/ New(1)
  \/ \E seed \in Seeds : NewSeeded(1, seed)
  \/ Shuffle(1)
  \/ Deal(1)
  \/ CardsRemaining(1)
  \/ NeedsReshuffle(1)

Spec == Init /\ [][Next]_vars

\* two decks, each built with new_seeded and then dealt from
NextPair ==
  \/ \E d \in DeckIds, seed \in Seeds : NewSeeded(d, seed)
  \/ \E d \in DeckIds : Deal(d)

SpecPair == Init /\ [][NextPair]_vars

\* one deck whose every dealt card goes into a hand, as in main.rs
NextGame ==
  \/ New(1)
  \/ \E seed \in Seeds : NewSeeded(1, seed)
  \/ \E h \in HandIds : DealTo(1, h)

SpecGame == Init /\ [][NextGame]_vars

\* two seeded decks; the seeds are u64, so they also range beyond the
\* generator's state space
SeedSamples ==
  Seeds \cup {RngMod}

NextSeeds ==
  \/ \E d \in DeckIds, seed \in SeedSamples : NewSeeded(d, seed)
  \/ \E d \in DeckIds : Deal(d)

SpecSeeds == Init /\ [][NextSeeds]_vars

\* two seeded decks; decks of one seed are driven by the same calls
NextLock ==
  \/ \E d \in DeckIds, seed \in Seeds : NewSeeded(d, seed)
  \/ DealBoth
  \/ ShuffleBoth
  \/ \E d \in DeckIds : CardsRemaining(d)
  \/ \E d \in DeckIds : NeedsReshuffle(d)

SpecLock == Init /\ [][NextLock]_vars

\* the methods of Card on every card Card::new(rank, suit) can build
NextCard ==
  \/ \E r \in Range(RankAll), s \in Range(SuitAll) : BaseValue(Card(r, s))
  \/ \E r \in Range(RankAll), s \in Range(SuitAll) : CardDisplay(Card(r, s))
  \/ \E r1, r2 \in Range(RankAll), s1, s2 \in Range(SuitAll) :
       CardEq(Card(r1, s1), Card(r2, s2))

SpecCard == Init /\ [][NextCard]_vars

\* one hand (Hand::new() is the empty hand of Init) under every operation of hand.rs
NextHand ==
  \/ \E card \in HandPool : AddCard("player", card)
  \/ CardCount("player")
  \/ CardsView("player")
  \/ Clear("player")

SpecHand == Init /\ [][NextHand]_vars

\* main() from its first statement to its last
NextMain ==
  \/ MainShowWelcome
  \/ MainShowMessage
  \/ MainNewDeck
  \/ MainNewHand
  \/ MainDeal
  \/ MainShowSeparator
  \/ MainShowPlayerHand
  \/ MainShowBankerHandHidden
  \/ MainShowRemaining

SpecMain == Init /\ [][NextMain]_vars

\* a banker hand that grows card by card and is shown at any point by the
\* two methods of Display that take a hand
NextDisplay ==
  \/ \E card \in HandPool : AddCard("banker", card)
  \/ ShowPlayerHand("banker")
  \/ ShowBankerHandHidden("banker")

SpecDisplay == Init /\ [][NextDisplay]_vars

(***************************************************************************)
(* Properties                                                              *)
(***************************************************************************)
Ranks == Range(RankAll)
Suits == Range(SuitAll)

\* how many times x occurs in the sequence c
Count(c, x) ==
  Cardinality({i \in 1..Len(c) : c[i] = x})

SameMultiset(c1, c2) ==
  /\ Len(c1) = Len(c2)
  /\ \A x \in Range(c1) \cup Range(c2) : Count(c1, x) = Count(c2, x)

\* C1: right after Deck::new() or Deck::new_seeded(seed), for every seed, the
\* deck holds 52 cards, every one of the 13 x 4 (rank, suit) combinations
\* exactly once, and cards_remaining() is 52.
C1_FreshDeckIsStandard ==
  last.name \in {"new", "new_seeded"} =>
    /\ Cardinality(Ranks) = 13 /\ Cardinality(Suits) = 4
    /\ Len(cards[last.d]) = 52
    /\ \A r \in Ranks, s \in Suits : Count(cards[last.d], Card(r, s)) = 1
    /\ cards_remaining(cards[last.d]) = 52

C1_Witness ==
  /\ last.name = "new_seeded" /\ seedOf[1] = 2
  /\ cards[1] # create_standard_deck

\* C2: the first 52 deal() calls on a deck each return a card, the 52 cards
\* are pairwise distinct and cover every rank/suit combination exactly once,
\* and the 53rd deal() returns no card with cards_remaining() = 0.
C2_DealAllThenNone ==
  \A d \in DeckIds : pc[d] = "live" =>
    /\ Len(dealt[d]) <= 52
    /\ nones[d] > 0 => Len(dealt[d]) = 52
    /\ Len(dealt[d]) = 52 =>
         LET returned == Range(dealt[d])
         IN  /\ Cardinality(returned) = 52
             /\ {Card(r, s) : r \in Ranks, s \in Suits} \subseteq returned
    /\ (last.name = "deal" /\ last.d = d /\ Len(dealt[d]) + nones[d] = 53) =>
         /\ last.card = <<>>
         /\ cards_remaining(cards[d]) = 0

C2_Witness ==
  /\ last.name = "deal" /\ last.card = <<>>
  /\ Len(dealt[1]) = 52 /\ nones[1] = 1 /\ shuffles[1] = 0

\* C3: shuffle() changes only the order of the cards: in every state it is
\* called in (fresh, partly dealt, empty) the multiset of cards after it
\* equals the multiset before it and cards_remaining() is unchanged.
C3_ShufflePreservesMultiset ==
  [][\A d \in DeckIds :
       (last'.name = "shuffle" /\ last'.d = d) =>
         /\ SameMultiset(cards[d], cards'[d])
         /\ cards_remaining(cards'[d]) = cards_remaining(cards[d])]_vars

C3_Witness ==
  /\ last.name = "shuffle" /\ shuffles[1] = 1
  /\ Len(dealt[1]) = 10 /\ Len(cards[1]) = 42

Min(a, b) ==
  IF a <= b THEN a ELSE b

\* C4: two decks built independently with new_seeded(seed), for the same
\* seed, return identical cards on each of their first k deal() calls, for
\* every k in 1..52.
C4_SameSeedSameDeals ==
  \A d1, d2 \in DeckIds :
    (pc[d1] = "live" /\ pc[d2] = "live" /\ seedOf[d1] = seedOf[d2]) =>
      \A i \in 1..Min(Len(dealt[d1]), Len(dealt[d2])) :
        i <= 52 => dealt[d1][i] = dealt[d2][i]

C4_Witness ==
  /\ pc[1] = "live" /\ pc[2] = "live"
  /\ seedOf[1] = 1 /\ seedOf[2] = 1
  /\ Len(dealt[1]) = 52 /\ Len(dealt[2]) = 52

\* C5: after exactly k calls of deal() on a freshly constructed deck, for
\* every k in 0..52, cards_remaining() is 52 - k.
C5_RemainingAfterKDeals ==
  \A d \in DeckIds : pc[d] = "live" =>
    LET k == Len(dealt[d]) + nones[d]
    IN  k <= 52 =>
          /\ cards_remaining(cards[d]) = 52 - k
          /\ (last.name = "cards_remaining" /\ last.d = d) => last.n = 52 - k

C5_Witness ==
  /\ last.name = "cards_remaining" /\ last.n = 15
  /\ Len(dealt[1]) = 37 /\ shuffles[1] = 0

\* C6: deal() on a deck with no cards left returns None, leaves the deck
\* empty and otherwise unchanged, and fails nothing, at every one of the
\* repeated calls.
C6_EmptyDealIsNone ==
  [][\A d \in DeckIds :
       (pc[d] = "live" /\ cards[d] = <<>> /\ last'.name = "deal" /\ last'.d = d) =>
         /\ last'.card = <<>>
         /\ cards'[d] = <<>>
         /\ rng'[d] = rng[d]
         /\ dealt'[d] = dealt[d]
         /\ pc'[d] = "live"
         /\ ~panicked']_vars

C6_Witness ==
  /\ last.name = "deal" /\ last.card = <<>>
  /\ nones[1] = 3 /\ cards[1] = <<>>

\* C7: in every reachable deck state, after any deal() and shuffle() calls,
\* needs_reshuffle() returns true if and only if cards_remaining() < 15.
C7_NeedsReshuffleIffBelow15 ==
  \A d \in DeckIds : pc[d] = "live" =>
    /\ cards_remaining(cards[d]) \in 0..52
    /\ needs_reshuffle(cards[d]) <=> (cards_remaining(cards[d]) < 15)
    /\ (last.name = "needs_reshuffle" /\ last.d = d) =>
         (last.b <=> (cards_remaining(cards[d]) < 15))

C7_Witness ==
  /\ last.name = "needs_reshuffle" /\ ~last.b
  /\ cards_remaining(cards[1]) = 15 /\ shuffles[1] = 1

\* C8: once deal() has returned a card, the deck no longer holds it and no
\* later deal() returns it again, whatever deal() and shuffle() calls follow.
C8_DealtNeverReappears ==
  \A d \in DeckIds :
    /\ Range(dealt[d]) \cap Range(cards[d]) = {}
    /\ Cardinality(Range(dealt[d])) = Len(dealt[d])

C8_Witness ==
  /\ last.name = "deal" /\ last.card # <<>>
  /\ shuffles[1] = 1 /\ Len(dealt[1]) = 30

\* C9: within a deck's lifetime cards_remaining() stays in 0..52 and never
\* increases: deal() on a non-empty deck lowers it by exactly 1, every other
\* call leaves it unchanged, so a Depleted deck stays Depleted.
C9_RemainingNeverIncreases ==
  [][\A d \in DeckIds : pc[d] = "live" =>
       /\ cards_remaining(cards'[d]) \in 0..52
       /\ cards_remaining(cards'[d]) <= cards_remaining(cards[d])
       /\ (last'.name = "deal" /\ last'.d = d /\ cards[d] # <<>>) =>
            cards_remaining(cards'[d]) = cards_remaining(cards[d]) - 1
       /\ ~(last'.name = "deal" /\ last'.d = d /\ cards[d] # <<>>) =>
            cards_remaining(cards'[d]) = cards_remaining(cards[d])
       /\ cards_remaining(cards[d]) = 0 => cards_remaining(cards'[d]) = 0]_vars

C9_Witness ==
  /\ last.name = "shuffle" /\ pc[1] = "live"
  /\ Len(dealt[1]) = 52 /\ cards_remaining(cards[1]) = 0

\* C10: when every card deal() returns is added to a hand with add_card and
\* no hand is cleared, the deck and the hands together hold each of the 52
\* standard cards exactly once: none is lost, in two hands, or in a hand and
\* the deck.
C10_DeckAndHandsPartition ==
  pc[1] = "live" =>
    /\ Len(cards[1]) + Len(hands["player"]) + Len(hands["banker"]) = 52
    /\ \A r \in Ranks, s \in Suits :
         Count(cards[1], Card(r, s)) + Count(hands["player"], Card(r, s))
           + Count(hands["banker"], Card(r, s)) = 1

C10_Witness ==
  /\ Len(hands["player"]) = 3 /\ Len(hands["banker"]) = 1
  /\ Len(cards[1]) = 48

\* C11: for a new hand and the cards c1..cn passed to add_card in that order,
\* cards() is exactly [c1..cn] and card_count() is n; each add_card grows the
\* count by exactly 1 and leaves the earlier cards in their positions.
C11_HandKeepsCardsInOrder ==
  [][\A h \in HandIds :
       /\ cards_view(hands'[h]) = given'[h]
       /\ card_count(hands'[h]) = Len(given'[h])
       /\ (last'.name = "cards" /\ last'.d = h) => last'.card = given'[h]
       /\ (last'.name = "card_count" /\ last'.d = h) => last'.n = Len(given'[h])
       /\ (last'.name = "add_card" /\ last'.d = h) =>
            /\ card_count(hands'[h]) = card_count(hands[h]) + 1
            /\ \A i \in 1..Len(hands[h]) : hands'[h][i] = hands[h][i]
            /\ hands'[h][Len(hands'[h])] = last'.card[1]]_vars

C11_Witness ==
  /\ last.name = "cards" /\ Len(last.card) = 3
  /\ last.card[1] # last.card[2] /\ last.card[1] = last.card[3]
  /\ clears["player"] = 0

\* C12: clear() is idempotent: from any hand, one clear() leaves card_count()
\* = 0 and cards() empty, and a second clear() right after it leaves the hand
\* in the same empty state.
C12_ClearIdempotent ==
  [][\A h \in HandIds :
       (last'.name = "clear" /\ last'.d = h) =>
         /\ card_count(hands'[h]) = 0
         /\ cards_view(hands'[h]) = <<>>
         /\ clears[h] >= 1 => hands'[h] = hands[h]]_vars

C12_Witness ==
  /\ last.name = "clear" /\ clears["player"] = 2
  /\ card_count(hands["player"]) = 0

C14_DuplicatesAreKept ==
  \A h \in HandIds :
    (given[h] # <<>> /\ \A i \in 1..Len(given[h]) : given[h][i] = given[h][1]) =>
      /\ card_count(hands[h]) = Len(given[h])
      /\ \A i \in 1..Len(cards_view(hands[h])) : cards_view(hands[h])[i] = given[h][1]
      /\ (last.name = "card_count" /\ last.d = h) => last.n = Len(given[h])

C14_Witness ==
  /\ last.name = "card_count" /\ last.n = 4
  /\ Len(given["player"]) = 4
  /\ \A i \in 1..4 : given["player"][i] = Card("Ace", "Hearts")

\* C15: for every card, base_value() depends only on the rank and lies in
\* 1..10: Ace gives 1, Two..Nine give 2..9, Ten, Jack, Queen and King give
\* 10, whatever the suit.
C15_BaseValueTable ==
  last.name = "base_value" =>
    LET rank == last.card[1].rank
        v == last.n
    IN  /\ last.card[1].suit \in Suits
        /\ v \in 1..10
        /\ rank = "Ace" => v = 1
        /\ \A p \in {<<"Two", 2>>, <<"Three", 3>>, <<"Four", 4>>, <<"Five", 5>>,
                     <<"Six", 6>>, <<"Seven", 7>>, <<"Eight", 8>>, <<"Nine", 9>>} :
             rank = p[1] => v = p[2]
        /\ rank \in {"Ten", "Jack", "Queen", "King"} => v = 10

C15_Witness ==
  /\ last.name = "base_value"
  /\ last.card[1] = Card("Ace", "Spades") /\ last.n = 1

\* C16: Card::new(r1, s1) equals Card::new(r2, s2) if and only if r1 = r2
\* and s1 = s2, for all ranks and suits.
C16_EqualIffSameRankAndSuit ==
  last.name = "eq" =>
    (last.b <=> (/\ last.card[1].rank = last.card[2].rank
                 /\ last.card[1].suit = last.card[2].suit))

C16_Witness ==
  /\ last.name = "eq" /\ ~last.b
  /\ last.card[1] = Card("Queen", "Hearts") /\ last.card[2] = Card("Queen", "Clubs")

\* C17 as stated: every card renders as the name of its rank, then " of ",
\* then the name of its suit.
C17_RendersRankName ==
  last.name = "display" =>
    last.str = last.card[1].rank \o " of " \o last.card[1].suit

\* C17 (amended): every card renders as the text of its rank, then " of ",
\* then the name of its suit, the text of a rank being its name for Ace,
\* Jack, Queen and King and its numeral "2" .. "10" for Two .. Ten.
C17_RendersRankText ==
  last.name = "display" =>
    LET rank == last.card[1].rank
        numeral == [Two |-> "2", Three |-> "3", Four |-> "4", Five |-> "5",
                    Six |-> "6", Seven |-> "7", Eight |-> "8", Nine |-> "9",
                    Ten |-> "10"]
        text == IF rank \in DOMAIN numeral THEN numeral[rank] ELSE rank
    IN  last.str = text \o " of " \o last.card[1].suit

C17_Witness ==
  /\ last.name = "display"
  /\ last.card[1] = Card("Ten", "Diamonds") /\ last.str = "10 of Diamonds"

\* C18: deal() on a non-empty deck takes the last element of the card
\* sequence: it returns exactly that card, removes exactly that one card and
\* leaves the other cards in their order; one call removes one card.
C18_DealTakesLast ==
  [][\A d \in DeckIds :
       (pc[d] = "live" /\ cards[d] # <<>> /\ last'.name = "deal" /\ last'.d = d) =>
         /\ last'.card = <<cards[d][Len(cards[d])]>>
         /\ Len(cards'[d]) = Len(cards[d]) - 1
         /\ \A i \in 1..Len(cards'[d]) : cards'[d][i] = cards[d][i]
         /\ dealt'[d] = Append(dealt[d], cards[d][Len(cards[d])])]_vars

C18_Witness ==
  /\ last.name = "deal" /\ last.card # <<>>
  /\ shuffles[1] = 1 /\ Len(dealt[1]) = 20 /\ Len(cards[1]) = 32

RECURSIVE Factorial(_)
Factorial(n) ==
  IF n <= 1 THEN 1 ELSE n * Factorial(n - 1)

\* C19: shuffle() is a Fisher-Yates scan from the last index down, swapping
\* index i with a partner in [0, i]: every one of the n! orderings of the n
\* cards in the deck is a possible result of one shuffle(), nothing else is,
\* and the scan ends after at most n steps.
C19_ShuffleReachesEveryOrdering ==
  \A d \in DeckIds :
    (pc[d] = "live" /\ Len(cards[d]) <= MaxFairLen) =>
      LET n == Len(cards[d])
          outs == shuffle_outcomes(cards[d])
          orders == {o.cards : o \in outs}
      IN  /\ \A o \in outs : o.steps <= n
          /\ \A c \in orders : Len(c) = n /\ Range(c) = Range(cards[d])
          /\ Cardinality(Range(cards[d])) = n
          /\ Cardinality(orders) = Factorial(n)
          /\ shuffle(cards[d], rng[d]).cards \in orders

C19_Witness ==
  /\ pc[1] = "live" /\ Len(cards[1]) = 4 /\ last.name = "shuffle"
  /\ Cardinality({o.cards : o \in shuffle_outcomes(cards[1])}) = 24

\* C20: only shuffle() changes a deck's generator state; deal(),
\* cards_remaining() and needs_reshuffle() leave it alone.  So two decks built
\* with new_seeded(seed) and driven by the same deal() and shuffle() calls
\* return the same at every deal() and hold the same order after every step.
C20_OnlyShuffleAdvancesRng ==
  [][/\ \A d \in DeckIds :
          (pc[d] = "live" /\ last'.name # "shuffle_both") => rng'[d] = rng[d]
     /\ (pc'[1] = "live" /\ pc'[2] = "live" /\ seedOf'[1] = seedOf'[2]) =>
          /\ cards'[1] = cards'[2]
          /\ dealt'[1] = dealt'[2]
          /\ nones'[1] = nones'[2]]_vars

C20_Witness ==
  /\ pc[1] = "live" /\ pc[2] = "live" /\ seedOf[1] = 2 /\ seedOf[2] = 2
  /\ last.name = "deal_both" /\ last.card # <<>>
  /\ shuffles[1] = 1 /\ shuffles[2] = 1
  /\ Len(dealt[1]) = 12 /\ rng[1] # seed_from_u64(2)

\* C21: main()'s initial deal never fails its expect("Deck should have cards")
\* and alternates player, banker, player, banker: with d1..d4 the first four
\* cards dealt from the new deck, afterwards the player hand is [d1, d3], the
\* banker hand is [d2, d4], the four cards are pairwise distinct and
\* cards_remaining() is 48, which is the number main() prints.
C21_InitialDealAlternates ==
  /\ ~panicked
  /\ nones[1] = 0
  /\ mainpc \in 22..25 => Len(dealt[1]) = mainpc - 22
  /\ mainpc > 25 =>
       /\ Len(dealt[1]) = 4
       /\ hands["player"] = << dealt[1][1], dealt[1][3] >>
       /\ hands["banker"] = << dealt[1][2], dealt[1][4] >>
       /\ Cardinality(Range(dealt[1])) = 4
       /\ Range(dealt[1]) \cap Range(cards[1]) = {}
       /\ cards_remaining(cards[1]) = 48
  /\ mainpc > 33 =>
       /\ last.name = "cards_remaining" => last.n = 48
       /\ last.name = "cards_remaining" =>
            out = << "", "", "Cards remaining in deck: 48" >>

C21_Witness ==
  /\ mainpc = 34
  /\ last.name = "cards_remaining" /\ last.n = 48
  /\ Len(hands["player"]) = 2 /\ Len(hands["banker"]) = 2
  /\ ~panicked

\* C22: needs_reshuffle() is false on a freshly constructed deck; once it has
\* become true it stays true for the rest of the deck's lifetime under any
\* deal() and shuffle() calls; and it first becomes true exactly when the
\* 38th card has been dealt, leaving 14.
C22_NeedsReshuffleLatches ==
  [][\A d \in DeckIds :
       /\ (pc[d] = "none" /\ pc'[d] = "live") => ~needs_reshuffle(cards'[d])
       /\ pc[d] = "live" =>
            /\ pc'[d] = "live"
            /\ needs_reshuffle(cards[d]) => needs_reshuffle(cards'[d])
            /\ (~needs_reshuffle(cards[d]) /\ needs_reshuffle(cards'[d])) =>
                 /\ last'.name = "deal" /\ last'.d = d /\ last'.card # <<>>
                 /\ Len(dealt'[d]) = 38
                 /\ cards_remaining(cards'[d]) = 14
            /\ Len(dealt'[d]) >= 38 <=> needs_reshuffle(cards'[d])
            /\ (last'.name = "needs_reshuffle" /\ last'.d = d) =>
                 (last'.b <=> Len(dealt[d]) >= 38)]_vars

C22_Witness ==
  /\ last.name = "needs_reshuffle" /\ last.b
  /\ shuffles[1] = 1 /\ Len(dealt[1]) = 40 /\ nones[1] = 0

\* every hand of up to n cards out of HandPool
HandsUpTo(n) ==
  UNION {[1..k -> HandPool] : k \in 0..n}

\* C23: show_banker_hand_hidden prints the first card of the hand, if any,
\* and then a single "[Hidden Card]" line if and only if card_count() > 1, so
\* two hands with the same first card that both hold more than one card print
\* the same lines whatever their other cards are; show_player_hand and
\* show_banker_hand_hidden leave the hand they are given unchanged.
C23_HiddenViewShowsFirstCardOnly ==
  [][\A h \in HandIds :
       /\ (last'.name \in {"show_player_hand", "show_banker_hand_hidden"}
             /\ last'.d = h) => hands' = hands
       /\ (last'.name = "show_banker_hand_hidden" /\ last'.d = h) =>
            /\ out' = << "", "+- Banker's Hand ---------------------+" >>
                        \o (IF card_count(hands[h]) > 0
                              THEN << "|  " \o card_display(hands[h][1]) >>
                              ELSE <<>>)
                        \o (IF card_count(hands[h]) > 1
                              THEN << "|  [Hidden Card]" >>
                              ELSE <<>>)
                        \o << "+-------------------------------------+" >>
            /\ Count(out', "|  [Hidden Card]") = 1 <=> card_count(hands[h]) > 1
            /\ card_count(hands[h]) > 1 =>
                 \A g \in HandsUpTo(MaxHandLen) :
                   (card_count(g) > 1 /\ g[1] = hands[h][1]) =>
                     show_banker_hand_hidden(g) = out']_vars

C23_Witness ==
  /\ last.name = "show_banker_hand_hidden" /\ last.d = "banker"
  /\ Len(hands["banker"]) = 3
  /\ hands["banker"][2] # hands["banker"][1]
  /\ out = << "", "+- Banker's Hand ---------------------+",
              "|  " \o card_display(hands["banker"][1]),
              "|  [Hidden Card]",
              "+-------------------------------------+" >>

====
